---- MODULE Spec2Model ----
\* Verification model of the interval math core of gregory-chatelier/span
\* (src/interval/interval.go) and of its sparkline renderer
\* (src/interval/spark.go).
\*
\* Numbers.  A float64 is modelled as a record [k, n, d]: k = "fin" is the
\* exact rational n/d (d > 0, lowest terms), k = "inf" is +Inf (n = 1) or
\* -Inf (n = -1), k = "nan" is NaN.  Arithmetic on finite values is exact:
\* rounding error of IEEE-754 is not modelled, so "equal" below means equal
\* up to floating-point rounding in the program.  Comparisons and arithmetic
\* with NaN and infinities follow IEEE-754 as Go implements them, and a
\* result beyond the largest finite value overflows to an infinity.
EXTENDS Integers, Sequences, FiniteSets, TLC

VARIABLES
    call,        \* the interval operation being executed and its arguments
    ret,         \* what that operation returned
    scanner,     \* the bufio.Scanner (lines, position, source failure)
    minVal,      \* Encompass: local minVal
    maxVal,      \* Encompass: local maxVal
    foundNumber, \* Encompass: local foundNumber
    stderr,      \* warnings written to os.Stderr
    encRet,      \* Encompass: returned (min, max, err)
    config,      \* GenerateSparkline: the SparkConfig argument
    writer,      \* the strings written to the io.Writer (os.Stdout)
    numbers,     \* readAllNumbers: local numbers
    buffer,      \* generateSparklineStream: local buffer (*circularBuffer)
    fields,      \* the fields of the scanned line still to be processed
    sparkRet,    \* GenerateSparkline: returned error
    pc           \* control position

vars == <<call, ret, scanner, minVal, maxVal, foundNumber, stderr, encRet,
          config, writer, numbers, buffer, fields, sparkRet, pc>>

mathVars == <<call, ret>>
encLocals == <<minVal, maxVal, foundNumber, stderr, encRet>>
sparkVars == <<config, writer, numbers, buffer, fields, sparkRet>>
encVars == <<scanner, minVal, maxVal, foundNumber, stderr, encRet, sparkVars>>

----------------------------------------------------------------------------
\* float64 values

RECURSIVE GCD(_, _)
GCD(x, y) == IF y = 0 THEN x ELSE GCD(y, x % y)

AbsInt(i) == IF i < 0 THEN -i ELSE i

\* the rational n/d in lowest terms with a positive denominator
Rat(n, d) ==
    LET s == IF d < 0 THEN -1 ELSE 1
        g == GCD(AbsInt(n), AbsInt(d))
    IN  [k |-> "fin", n |-> (s * n) \div g, d |-> (s * d) \div g]

NaN == [k |-> "nan", n |-> 0, d |-> 1]
PosInf == [k |-> "inf", n |-> 1, d |-> 1]
NegInf == [k |-> "inf", n |-> -1, d |-> 1]
Zero == Rat(0, 1)

\* math.IsNaN
IsNaN(x) == x.k = "nan"

\* math.IsInf(x, sign)
IsInf(x, sign) ==
    /\ x.k = "inf"
    /\ \/ sign = 0
       \/ sign > 0 /\ x.n = 1
       \/ sign < 0 /\ x.n = -1

IsFinite(x) == x.k = "fin"

SignOf(x) == IF x.n > 0 THEN 1 ELSE IF x.n < 0 THEN -1 ELSE 0

\* x < y on float64: false whenever an operand is NaN
Lt(x, y) ==
    /\ ~IsNaN(x)
    /\ ~IsNaN(y)
    /\ CASE x.k = "inf" /\ y.k = "inf" -> x.n < y.n
         [] x.k = "inf" -> x.n < 0
         [] y.k = "inf" -> y.n > 0
         [] OTHER -> x.n * y.d < y.n * x.d

Gt(x, y) == Lt(y, x)

\* x <= y and x >= y on float64: false whenever an operand is NaN
Le(x, y) == ~IsNaN(x) /\ ~IsNaN(y) /\ ~Lt(y, x)
Ge(x, y) == Le(y, x)

\* x == y on float64: NaN equals nothing
Eq(x, y) == ~IsNaN(x) /\ ~IsNaN(y) /\ x = y

\* math.MaxFloat64, the largest finite float64.  TLC's integers are 32 bits
\* wide, so it is scaled to 1000; only the renderer's extreme samples come
\* near it.
MaxFloat64 == 1000

\* the float64 of the exact result n/d: an infinity when it is out of range
Finite(n, d) ==
    LET r == Rat(n, d)
    IN  IF AbsInt(r.n) > MaxFloat64 * r.d
        THEN (IF r.n > 0 THEN PosInf ELSE NegInf)
        ELSE r

Neg(x) ==
    CASE x.k = "nan" -> NaN
      [] x.k = "inf" -> [x EXCEPT !.n = -x.n]
      [] OTHER -> Rat(-x.n, x.d)

Add(x, y) ==
    CASE IsNaN(x) \/ IsNaN(y) -> NaN
      [] x.k = "inf" /\ y.k = "inf" -> IF x.n = y.n THEN x ELSE NaN
      [] x.k = "inf" -> x
      [] y.k = "inf" -> y
      [] OTHER -> Finite(x.n * y.d + y.n * x.d, x.d * y.d)

Sub(x, y) == Add(x, Neg(y))

Mul(x, y) ==
    CASE IsNaN(x) \/ IsNaN(y) -> NaN
      [] x.k = "inf" \/ y.k = "inf" ->
            IF SignOf(x) * SignOf(y) = 0 THEN NaN
            ELSE IF SignOf(x) * SignOf(y) > 0 THEN PosInf ELSE NegInf
      [] OTHER -> Finite(x.n * y.n, x.d * y.d)

Div(x, y) ==
    CASE IsNaN(x) \/ IsNaN(y) -> NaN
      [] x.k = "inf" /\ y.k = "inf" -> NaN
      [] x.k = "inf" -> IF (IF y.n < 0 THEN -x.n ELSE x.n) > 0 THEN PosInf ELSE NegInf
      [] y.k = "inf" -> Zero
      [] y.n = 0 -> IF x.n = 0 THEN NaN ELSE IF x.n > 0 THEN PosInf ELSE NegInf
      [] OTHER -> Finite(x.n * y.d, x.d * y.n)

\* math.Abs
Abs(x) ==
    CASE x.k = "nan" -> NaN
      [] x.k = "inf" -> PosInf
      [] OTHER -> Rat(AbsInt(x.n), x.d)

\* Round with halves rounded towards zero instead
Round_HalfDown(x) ==
    IF x.k # "fin" THEN x
    ELSE LET m == (2 * AbsInt(x.n) + x.d - 1) \div (2 * x.d)
         IN  Rat(SignOf(x) * m, 1)

\* math.Round: nearest integer, halves away from zero
Round(x) ==
    IF x.k # "fin" THEN x
    ELSE LET m == (2 * AbsInt(x.n) + x.d) \div (2 * x.d)
         IN  Rat(SignOf(x) * m, 1)

\* float64(i) for an int i
Float(i) == Rat(i, 1)

\* const epsilon = 1e-15 in Deval.  TLC's integers are 32 bits wide, so the
\* tolerance is scaled to 1/4; the code only ever compares |b-a| and |val-a|
\* with it, and the input sets below hold values on both sides of it and
\* exactly on it.
epsilon == Rat(1, 4)

----------------------------------------------------------------------------
\* Results of operations returning (float64, error)

Ok(v) == [val |-> v, err |-> "nil"]
Fail(e) == [val |-> Zero, err |-> e]

\* Limit restricts a value to [min, max]
Limit(val, min, max) ==
    IF IsNaN(val) \/ IsNaN(min) \/ IsNaN(max) THEN NaN
    ELSE IF IsInf(val, 0) THEN (IF IsInf(val, 1) THEN max ELSE min)
    ELSE LET lo == IF Gt(min, max) THEN max ELSE min
             hi == IF Gt(min, max) THEN min ELSE max
         IN  IF Lt(val, lo) THEN lo
             ELSE IF Gt(val, hi) THEN hi
             ELSE val

\* Deval with a value at exactly the tolerance counted as coinciding with a
Deval_InclusiveTolerance(val, a, b) ==
    IF IsNaN(val) \/ IsNaN(a) \/ IsNaN(b) THEN Fail("NaN")
    ELSE IF IsInf(val, 0) \/ IsInf(a, 0) \/ IsInf(b, 0) THEN Fail("Inf")
    ELSE LET delta == Sub(b, a)
         IN  IF Lt(Abs(delta), epsilon)
             THEN IF Le(Abs(Sub(val, a)), epsilon) THEN Ok(Zero)
                  ELSE Fail("near-zero delta")
             ELSE Ok(Div(Sub(val, a), delta))

\* Deval dividing by the width |b-a| instead of the signed delta
Deval_Unsigned(val, a, b) ==
    IF IsNaN(val) \/ IsNaN(a) \/ IsNaN(b) THEN Fail("NaN")
    ELSE IF IsInf(val, 0) \/ IsInf(a, 0) \/ IsInf(b, 0) THEN Fail("Inf")
    ELSE LET delta == Sub(b, a)
         IN  IF Lt(Abs(delta), epsilon)
             THEN IF Lt(Abs(Sub(val, a)), epsilon) THEN Ok(Zero)
                  ELSE Fail("near-zero delta")
             ELSE Ok(Div(Sub(val, a), Abs(delta)))

\* Deval returns the parameter t of a value within an interval [a, b]
Deval(val, a, b) ==
    IF IsNaN(val) \/ IsNaN(a) \/ IsNaN(b) THEN Fail("NaN")
    ELSE IF IsInf(val, 0) \/ IsInf(a, 0) \/ IsInf(b, 0) THEN Fail("Inf")
    ELSE LET delta == Sub(b, a)
         IN  IF Lt(Abs(delta), epsilon)
             THEN IF Lt(Abs(Sub(val, a)), epsilon) THEN Ok(Zero)
                  ELSE Fail("near-zero delta")
             ELSE Ok(Div(Sub(val, a), delta))

\* Eval on the ordered interval [min(a,b), max(a,b)]
Eval_Normalized(t, a, b) ==
    IF IsNaN(t) \/ IsNaN(a) \/ IsNaN(b) THEN NaN
    ELSE IF Gt(a, b) THEN Add(b, Mul(Sub(a, b), t))
    ELSE Add(a, Mul(Sub(b, a), t))

\* Eval evaluates a parameter t within the interval [a, b]
Eval(t, a, b) ==
    IF IsNaN(t) \/ IsNaN(a) \/ IsNaN(b) THEN NaN
    ELSE Add(a, Mul(Sub(b, a), t))

\* Remap rejecting a zero-width destination as well
Remap_DstChecked(val, srcA, srcB, dstA, dstB) ==
    IF IsNaN(val) \/ IsNaN(srcA) \/ IsNaN(srcB) \/ IsNaN(dstA) \/ IsNaN(dstB)
    THEN Fail("NaN")
    ELSE IF IsInf(val, 0) \/ IsInf(srcA, 0) \/ IsInf(srcB, 0)
            \/ IsInf(dstA, 0) \/ IsInf(dstB, 0)
    THEN Fail("Inf")
    ELSE LET r == Deval(val, srcA, srcB)
         IN  IF r.err # "nil" \/ Eq(dstA, dstB) THEN Fail("zero delta")
             ELSE Ok(Eval(r.val, dstA, dstB))

\* Remap translates a value from [srcA, srcB] to [dstA, dstB]
Remap(val, srcA, srcB, dstA, dstB) ==
    IF IsNaN(val) \/ IsNaN(srcA) \/ IsNaN(srcB) \/ IsNaN(dstA) \/ IsNaN(dstB)
    THEN Fail("NaN")
    ELSE IF IsInf(val, 0) \/ IsInf(srcA, 0) \/ IsInf(srcB, 0)
            \/ IsInf(dstA, 0) \/ IsInf(dstB, 0)
    THEN Fail("Inf")
    ELSE LET r == Deval(val, srcA, srcB)
         IN  IF r.err # "nil" THEN Fail("zero delta")
             ELSE Ok(Eval(r.val, dstA, dstB))

\* Snap without the clamping of the value into the ordered interval
Snap_NoClamp(val, steps, a, b) ==
    IF IsNaN(val) \/ IsNaN(a) \/ IsNaN(b) THEN Fail("NaN")
    ELSE IF IsInf(val, 0) \/ IsInf(a, 0) \/ IsInf(b, 0) THEN Fail("Inf")
    ELSE IF steps <= 0 THEN Fail("steps")
    ELSE IF Eq(a, b) THEN Ok(a)
    ELSE LET r == Deval(val, a, b)
         IN  IF r.err # "nil" THEN Fail("bin error")
             ELSE LET stepIndex == Round(Mul(r.val, Float(steps)))
                      snappedT == Div(stepIndex, Float(steps))
                  IN  Ok(Eval(snappedT, a, b))

\* Snap rejecting only a negative step count
Snap_ZeroStepsAllowed(val, steps, a, b) ==
    IF IsNaN(val) \/ IsNaN(a) \/ IsNaN(b) THEN Fail("NaN")
    ELSE IF IsInf(val, 0) \/ IsInf(a, 0) \/ IsInf(b, 0) THEN Fail("Inf")
    ELSE IF steps < 0 THEN Fail("steps")
    ELSE LET min == IF Gt(a, b) THEN b ELSE a
             max == IF Gt(a, b) THEN a ELSE b
         IN  IF Le(val, min) THEN Ok(min)
             ELSE IF Ge(val, max) THEN Ok(max)
             ELSE IF Eq(a, b) THEN Ok(a)
             ELSE LET r == Deval(val, a, b)
                  IN  IF r.err # "nil" THEN Fail("bin error")
                      ELSE LET stepIndex == Round(Mul(r.val, Float(steps)))
                               snappedT == Div(stepIndex, Float(steps))
                           IN  Ok(Eval(snappedT, a, b))

\* Snap snaps a value to the nearest point of the grid of `steps` segments on [a, b]
Snap(val, steps, a, b) ==
    IF IsNaN(val) \/ IsNaN(a) \/ IsNaN(b) THEN Fail("NaN")
    ELSE IF IsInf(val, 0) \/ IsInf(a, 0) \/ IsInf(b, 0) THEN Fail("Inf")
    ELSE IF steps <= 0 THEN Fail("steps")
    ELSE LET min == IF Gt(a, b) THEN b ELSE a
             max == IF Gt(a, b) THEN a ELSE b
         IN  IF Le(val, min) THEN Ok(min)
             ELSE IF Ge(val, max) THEN Ok(max)
             ELSE IF Eq(a, b) THEN Ok(a)
             ELSE LET r == Deval(val, a, b)
                  IN  IF r.err # "nil" THEN Fail("bin error")
                      ELSE LET stepIndex == Round(Mul(r.val, Float(steps)))
                               snappedT == Div(stepIndex, Float(steps))
                           IN  Ok(Eval(snappedT, a, b))

\* Divide with the loop index off by one: the segment ends instead of the starts
Divide_OffByOne(steps, a, b) ==
    IF IsNaN(a) \/ IsNaN(b) THEN Fail("NaN")
    ELSE IF IsInf(a, 0) \/ IsInf(b, 0) THEN Fail("Inf")
    ELSE IF steps < 0 THEN Fail("steps")
    ELSE IF steps = 0 THEN Ok(<<>>)
    ELSE IF Eq(a, b) THEN Ok([i \in 1..steps |-> a])
    ELSE LET stepSize == Div(Sub(b, a), Float(steps))
         IN  Ok([i \in 1..steps |-> Add(a, Mul(Float(i), stepSize))])

\* Divide returns the start points of `steps` equal segments of [a, b]
Divide(steps, a, b) ==
    IF IsNaN(a) \/ IsNaN(b) THEN Fail("NaN")
    ELSE IF IsInf(a, 0) \/ IsInf(b, 0) THEN Fail("Inf")
    ELSE IF steps < 0 THEN Fail("steps")
    ELSE IF steps = 0 THEN Ok(<<>>)
    ELSE IF Eq(a, b) THEN Ok([i \in 1..steps |-> a])
    ELSE LET stepSize == Div(Sub(b, a), Float(steps))
         IN  Ok([i \in 1..steps |-> Add(a, Mul(Float(i - 1), stepSize))])

\* Random with the parameter t drawn once, before the loop
Random_SingleDraw(r, count, a, b) ==
    IF IsNaN(a) \/ IsNaN(b) THEN [val |-> Zero, err |-> "NaN", draws |-> 0]
    ELSE IF IsInf(a, 0) \/ IsInf(b, 0) THEN [val |-> Zero, err |-> "Inf", draws |-> 0]
    ELSE IF count < 0 THEN [val |-> Zero, err |-> "count", draws |-> 0]
    ELSE IF count = 0 THEN [val |-> <<>>, err |-> "nil", draws |-> 0]
    ELSE LET start == IF Gt(a, b) THEN b ELSE a
             end == IF Gt(a, b) THEN a ELSE b
         IN  [val |-> [i \in 1..count |-> Eval(r[1], start, end)],
              err |-> "nil", draws |-> 1]

\* the loop of Random from index i on: r is the sequence of values that
\* successive calls of r.Float64() return, pos the number of calls made
RECURSIVE RandomLoop(_, _, _, _, _, _)
RandomLoop(r, pos, i, start, end, results) ==
    IF i > Len(results) THEN [results |-> results, pos |-> pos]
    ELSE LET t == r[pos + 1]
         IN  RandomLoop(r, pos + 1, i + 1, start, end,
                        [results EXCEPT ![i] = Eval(t, start, end)])

\* Random draws `count` values in [a, b]; `draws` is the number of calls of
\* r.Float64() it made
Random(r, count, a, b) ==
    IF IsNaN(a) \/ IsNaN(b) THEN [val |-> Zero, err |-> "NaN", draws |-> 0]
    ELSE IF IsInf(a, 0) \/ IsInf(b, 0) THEN [val |-> Zero, err |-> "Inf", draws |-> 0]
    ELSE IF count < 0 THEN [val |-> Zero, err |-> "count", draws |-> 0]
    ELSE IF count = 0 THEN [val |-> <<>>, err |-> "nil", draws |-> 0]
    ELSE LET start == IF Gt(a, b) THEN b ELSE a
             end == IF Gt(a, b) THEN a ELSE b
             loop == RandomLoop(r, 0, 1, start, end, [i \in 1..count |-> Zero])
         IN  [val |-> loop.results, err |-> "nil", draws |-> loop.pos]

\* Subintervals with every pair one step wide from a fixed start: the end of
\* a pair is computed from the first start, not from its own
Subintervals_FixedEnd(steps, a, b) ==
    IF IsNaN(a) \/ IsNaN(b) THEN Fail("NaN")
    ELSE IF IsInf(a, 0) \/ IsInf(b, 0) THEN Fail("Inf")
    ELSE IF steps < 0 THEN Fail("steps")
    ELSE IF steps = 0 THEN Ok(<<>>)
    ELSE IF Eq(a, b) THEN Ok([i \in 1..steps |-> <<a, a>>])
    ELSE LET stepSize == Div(Sub(b, a), Float(steps))
         IN  Ok([i \in 1..steps |->
                    <<Add(a, Mul(Float(i - 1), stepSize)), Add(a, stepSize)>>])

\* Subintervals on the ordered interval [min(a,b), max(a,b)]
Subintervals_Normalized(steps, a, b) ==
    IF IsNaN(a) \/ IsNaN(b) THEN Fail("NaN")
    ELSE IF IsInf(a, 0) \/ IsInf(b, 0) THEN Fail("Inf")
    ELSE IF steps < 0 THEN Fail("steps")
    ELSE IF steps = 0 THEN Ok(<<>>)
    ELSE IF Eq(a, b) THEN Ok([i \in 1..steps |-> <<a, a>>])
    ELSE LET lo == IF Gt(a, b) THEN b ELSE a
             hi == IF Gt(a, b) THEN a ELSE b
             stepSize == Div(Sub(hi, lo), Float(steps))
         IN  Ok([i \in 1..steps |->
                    <<Add(lo, Mul(Float(i - 1), stepSize)),
                      Add(lo, Mul(Float(i), stepSize))>>])

\* Subintervals returns the (start, end) pairs of `steps` equal segments of [a, b]
Subintervals(steps, a, b) ==
    IF IsNaN(a) \/ IsNaN(b) THEN Fail("NaN")
    ELSE IF IsInf(a, 0) \/ IsInf(b, 0) THEN Fail("Inf")
    ELSE IF steps < 0 THEN Fail("steps")
    ELSE IF steps = 0 THEN Ok(<<>>)
    ELSE IF Eq(a, b) THEN Ok([i \in 1..steps |-> <<a, a>>])
    ELSE LET stepSize == Div(Sub(b, a), Float(steps))
         IN  Ok([i \in 1..steps |->
                    <<Add(a, Mul(Float(i - 1), stepSize)),
                      Add(a, Mul(Float(i), stepSize))>>])

----------------------------------------------------------------------------
\* strconv.ParseFloat(line, 64) on the lines of the model: a line is a
\* sequence of characters; an optional sign followed by decimal digits or by
\* "Inf", and the unsigned word "NaN", are accepted, anything else is a
\* syntax error

Digits == <<"0", "1", "2", "3", "4", "5", "6", "7", "8", "9">>

IsDigit(c) == \E i \in 1..10 : Digits[i] = c

DigitVal(c) == (CHOOSE i \in 1..10 : Digits[i] = c) - 1

RECURSIVE DigitsValue(_)
DigitsValue(s) ==
    IF s = <<>> THEN 0
    ELSE 10 * DigitsValue(SubSeq(s, 1, Len(s) - 1)) + DigitVal(s[Len(s)])

ParseFloat(line) ==
    LET signed == Len(line) > 0 /\ line[1] \in {"+", "-"}
        neg == signed /\ line[1] = "-"
        body == IF signed THEN Tail(line) ELSE line
    IN  IF body = <<"I", "n", "f">> THEN Ok(IF neg THEN NegInf ELSE PosInf)
        ELSE IF ~signed /\ body = <<"N", "a", "N">> THEN Ok(NaN)
        ELSE IF Len(body) > 0 /\ \A i \in 1..Len(body) : IsDigit(body[i])
        THEN Ok(Rat((IF neg THEN -1 ELSE 1) * DigitsValue(body), 1))
        ELSE Fail("syntax")

----------------------------------------------------------------------------
\* Sparkline renderer (src/interval/spark.go).  A Go string is modelled as
\* the sequence of its symbols: a glyph, an ANSI colour code, or "\r".

SparkCharacters == <<" ", "▂", "▃", "▄", "▅", "▆", "▇", "█">>

ColorNone == ""
ColorRed == "ESC[31m"
ColorReset == "ESC[0m"

\* math.MinInt64 (scaled to TLC's 32-bit integers)
MinInt64 == -2147483647

\* what int(math.NaN()) may be: the Go specification leaves the conversion
\* of a value that int cannot represent to the implementation (amd64 gives
\* math.MinInt64, arm64 gives 0)
IntOfNaN == {0, MinInt64}

\* the conversion int(x): truncation towards zero of a finite x, and the
\* build's value undef otherwise
int_Nearest(x, undef) == IF IsFinite(x) THEN Round(x).n ELSE undef
int(x, undef) ==
    IF IsFinite(x) THEN SignOf(x) * (AbsInt(x.n) \div x.d) ELSE undef

\* SparkCharacters[i]; an index out of range is a run-time panic
Panic == "panic: index out of range"
RuneAt(i) ==
    IF i \in 0..(Len(SparkCharacters) - 1) THEN SparkCharacters[i + 1] ELSE Panic

Panics(str) == \E i \in 1..Len(str) : str[i] = Panic

applyColor_NoReset(s, color) ==
    IF color = ColorNone THEN s ELSE <<color>> \o s

applyColor(s, color) ==
    IF color = ColorNone THEN s ELSE <<color>> \o s \o <<ColorReset>>

\* strings.Fields on a line of characters
RECURSIVE FieldsLoop(_, _, _)
FieldsLoop(line, cur, acc) ==
    IF line = <<>>
    THEN IF cur = <<>> THEN acc ELSE Append(acc, cur)
    ELSE IF Head(line) = " "
         THEN FieldsLoop(Tail(line), <<>>,
                         IF cur = <<>> THEN acc ELSE Append(acc, cur))
         ELSE FieldsLoop(Tail(line), Append(cur, Head(line)), acc)

Fields(line) == FieldsLoop(line, <<>>, <<>>)

\* circularBuffer: data is the slice (index i of the code is data[i + 1])
NilBuffer == [nil |-> TRUE, data |-> <<>>, head |-> 0, full |-> FALSE]

newCircularBuffer_ZeroAllowed(size) ==
    LET n == IF size < 0 THEN 1 ELSE size
    IN  [nil |-> FALSE, data |-> [i \in 1..n |-> Zero], head |-> 0, full |-> FALSE]

newCircularBuffer(size) ==
    LET n == IF size <= 0 THEN 1 ELSE size
    IN  [nil |-> FALSE, data |-> [i \in 1..n |-> Zero], head |-> 0, full |-> FALSE]

BufferAdd(cb, val) ==
    LET head == (cb.head + 1) % Len(cb.data)
    IN  [nil |-> FALSE,
         data |-> [cb.data EXCEPT ![cb.head + 1] = val],
         head |-> head,
         full |-> cb.full \/ head = 0]

GetAll(cb) ==
    IF ~cb.full
    THEN SubSeq(cb.data, 1, cb.head)
    ELSE SubSeq(cb.data, cb.head + 1, Len(cb.data)) \o SubSeq(cb.data, 1, cb.head)

\* the buffer after Add of each value of a sequence
RECURSIVE BufferOf(_, _)
BufferOf(seq, cb) ==
    IF seq = <<>> THEN cb ELSE BufferOf(Tail(seq), BufferAdd(cb, Head(seq)))

\* the loop of MinMax over data[1:]
RECURSIVE MinMaxLoop(_, _, _)
MinMaxLoop(data, min, max) ==
    IF data = <<>>
    THEN [min |-> min, max |-> max]
    ELSE LET v == Head(data)
         IN  MinMaxLoop(Tail(data),
                        IF Lt(v, min) THEN v ELSE min,
                        IF Gt(v, max) THEN v ELSE max)

MinMax(cb) ==
    LET data == GetAll(cb)
    IN  IF Len(data) = 0
        THEN [min |-> Zero, max |-> Zero]
        ELSE MinMaxLoop(Tail(data), data[1], data[1])

\* the loops of generateSparklineFromSlice that compute min and max
RECURSIVE SliceMin(_, _)
SliceMin(nums, min) ==
    IF nums = <<>> THEN min
    ELSE SliceMin(Tail(nums), IF Lt(Head(nums), min) THEN Head(nums) ELSE min)

RECURSIVE SliceMax(_, _)
SliceMax(nums, max) ==
    IF nums = <<>> THEN max
    ELSE SliceMax(Tail(nums), IF Gt(Head(nums), max) THEN Head(nums) ELSE max)

\* float64(len(SparkCharacters)-1)
TopIndex == Float(Len(SparkCharacters) - 1)

\* what generateSparklineFromSlice writes for a non-empty slice
generateSparklineFromSlice(nums, cfg, undef) ==
    LET min == IF cfg.HasMin THEN cfg.Min ELSE SliceMin(nums, PosInf)
        max == IF cfg.HasMax THEN cfg.Max ELSE SliceMax(nums, NegInf)
        output ==
            [i \in 1..Len(nums) |->
                LET charIndex == IF Gt(max, min)
                                 THEN Remap(nums[i], min, max, Zero, TopIndex).val
                                 ELSE Zero
                    clampedIndex == int(Limit(charIndex, Zero, TopIndex), undef)
                IN  RuneAt(clampedIndex)]
    IN  applyColor(output, cfg.Color)

\* what renderSlidingWindow writes
renderSlidingWindow_FlatMiddle(cb, min, max, color, undef) ==
    LET nums == GetAll(cb)
        output ==
            [i \in 1..Len(nums) |->
                LET charIndex == IF Gt(max, min)
                                 THEN Remap(nums[i], min, max, Zero, TopIndex).val
                                 ELSE Div(TopIndex, Float(2))
                    clampedIndex == int(Limit(charIndex, Zero, TopIndex), undef)
                IN  RuneAt(clampedIndex)]
    IN  <<"\r">> \o applyColor(output, color)

renderSlidingWindow(cb, min, max, color, undef) ==
    LET nums == GetAll(cb)
        output ==
            [i \in 1..Len(nums) |->
                LET charIndex == IF Gt(max, min)
                                 THEN Remap(nums[i], min, max, Zero, TopIndex).val
                                 ELSE Zero
                    clampedIndex == int(Limit(charIndex, Zero, TopIndex), undef)
                IN  RuneAt(clampedIndex)]
    IN  <<"\r">> \o applyColor(output, color)

\* renderGrowingCharacter that only sets a zero-width scale apart
renderGrowingCharacter_AnyDirection(val, min, max, undef) ==
    LET charIndex == IF max # min
                     THEN Remap(val, min, max, Zero, TopIndex).val
                     ELSE Zero
        clampedIndex == int(Limit(charIndex, Zero, TopIndex), undef)
    IN  <<RuneAt(clampedIndex)>>

\* what renderGrowingCharacter appends to the builder
renderGrowingCharacter(val, min, max, undef) ==
    LET charIndex == IF Gt(max, min)
                     THEN Remap(val, min, max, Zero, TopIndex).val
                     ELSE Zero
        clampedIndex == int(Limit(charIndex, Zero, TopIndex), undef)
    IN  <<RuneAt(clampedIndex)>>

----------------------------------------------------------------------------
\* Input sets

MaxSteps == 3
MaxCount == 2
MaxLines == 3

FinVals == {Rat(-1, 1), Zero, Rat(1, 16), Rat(1, 8), Rat(1, 4), Rat(1, 2), Rat(1, 1), Rat(2, 1)}
Floats == FinVals \union {NaN, PosInf, NegInf}
DstVals == {Zero, Rat(1, 1), Rat(2, 1), NaN, PosInf}
StepCounts == -1..MaxSteps
Counts == -1..MaxCount
RngVals == {Zero, Rat(1, 2), Rat(7, 8)}
Lines == { <<>>, <<"x">>, <<"1">>, <<"-", "1">>, <<"2">>,
           <<"N", "a", "N">>, <<"I", "n", "f">>, <<"-", "I", "n", "f">> }

SeqsUpTo(S, n) == UNION { [1..m -> S] : m \in 0..n }

MaxWidth == 3
MaxStreamLines == 2
MaxCapacity == 3
MaxRendered == 2
MaxAdds == 4
MaxSparkLines == 2

\* the scales of a SparkConfig: a bound that is never read is left at zero
ScaleVals == {Zero, Rat(1, 8), Rat(2, 1)}
Widths == -1..MaxWidth
Configs ==
    { c \in [Min : ScaleVals, Max : ScaleVals, HasMin : BOOLEAN, HasMax : BOOLEAN,
             Width : Widths, Color : {ColorNone, ColorRed}] :
        /\ ~c.HasMin => c.Min = Zero
        /\ (~c.HasMin /\ ~c.HasMax) => c.Max = Zero }
SparkLines == { <<>>, <<"x">>, <<"0">>, <<"1">>, <<"2">>,
                <<"0", " ", "2">>, <<"N", "a", "N">> }

NoCall == [op |-> "none", args |-> <<>>]
NoRet == [val |-> Zero, err |-> "none"]
NoEncRet == [min |-> Zero, max |-> Zero, err |-> "none"]
NoConfig == [Min |-> Zero, Max |-> Zero, HasMin |-> FALSE, HasMax |-> FALSE,
             Width |-> 0, Color |-> ColorNone]

Init ==
    /\ call = NoCall
    /\ ret = NoRet
    /\ scanner = [lines |-> <<>>, pos |-> 0, fails |-> FALSE]
    /\ minVal = PosInf
    /\ maxVal = NegInf
    /\ foundNumber = FALSE
    /\ stderr = <<>>
    /\ encRet = NoEncRet
    /\ config = NoConfig
    /\ writer = <<>>
    /\ numbers = <<>>
    /\ buffer = NilBuffer
    /\ fields = <<>>
    /\ sparkRet = "none"
    /\ pc = "idle"

----------------------------------------------------------------------------
\* Calls of the pure operations: the arguments are drawn from the input sets
\* and the operation is applied to them

CallLimit ==
    /\ pc = "idle"
    /\ \E val \in Floats, min \in Floats, max \in Floats :
          /\ call' = [op |-> "Limit", args |-> <<val, min, max>>]
          /\ ret' = Ok(Limit(val, min, max))
    /\ pc' = "returned"
    /\ UNCHANGED encVars

CallDeval ==
    /\ pc = "idle"
    /\ \E val \in Floats, a \in Floats, b \in Floats :
          /\ call' = [op |-> "Deval", args |-> <<val, a, b>>]
          /\ ret' = Deval(val, a, b)
    /\ pc' = "returned"
    /\ UNCHANGED encVars

CallEval ==
    /\ pc = "idle"
    /\ \E t \in Floats, a \in Floats, b \in Floats :
          /\ call' = [op |-> "Eval", args |-> <<t, a, b>>]
          /\ ret' = Ok(Eval(t, a, b))
    /\ pc' = "returned"
    /\ UNCHANGED encVars

CallRemap ==
    /\ pc = "idle"
    /\ \E val \in Floats, srcA \in Floats, srcB \in Floats,
          dstA \in DstVals, dstB \in DstVals :
          /\ call' = [op |-> "Remap", args |-> <<val, srcA, srcB, dstA, dstB>>]
          /\ ret' = Remap(val, srcA, srcB, dstA, dstB)
    /\ pc' = "returned"
    /\ UNCHANGED encVars

CallSnap ==
    /\ pc = "idle"
    /\ \E val \in Floats, steps \in StepCounts, a \in Floats, b \in Floats :
          /\ call' = [op |-> "Snap", args |-> <<val, steps, a, b>>]
          /\ ret' = Snap(val, steps, a, b)
    /\ pc' = "returned"
    /\ UNCHANGED encVars

CallDivide ==
    /\ pc = "idle"
    /\ \E steps \in StepCounts, a \in Floats, b \in Floats :
          /\ call' = [op |-> "Divide", args |-> <<steps, a, b>>]
          /\ ret' = Divide(steps, a, b)
    /\ pc' = "returned"
    /\ UNCHANGED encVars

CallRandom ==
    /\ pc = "idle"
    /\ \E r \in [1..MaxCount -> RngVals], count \in Counts,
          a \in Floats, b \in Floats :
          /\ call' = [op |-> "Random", args |-> <<r, count, a, b>>]
          /\ ret' = Random(r, count, a, b)
    /\ pc' = "returned"
    /\ UNCHANGED encVars

CallSubintervals ==
    /\ pc = "idle"
    /\ \E steps \in StepCounts, a \in Floats, b \in Floats :
          /\ call' = [op |-> "Subintervals", args |-> <<steps, a, b>>]
          /\ ret' = Subintervals(steps, a, b)
    /\ pc' = "returned"
    /\ UNCHANGED encVars

----------------------------------------------------------------------------
\* Encompass(scanner): entry, one action per outcome of a loop iteration,
\* and the code after the loop

CallEncompass ==
    /\ pc = "idle"
    /\ \E lines \in SeqsUpTo(Lines, MaxLines), fails \in BOOLEAN :
          scanner' = [lines |-> lines, pos |-> 0, fails |-> fails]
    /\ minVal' = PosInf
    /\ maxVal' = NegInf
    /\ foundNumber' = FALSE
    /\ pc' = "Encompass"
    /\ UNCHANGED <<stderr, encRet, mathVars, sparkVars>>

\* scanner.Scan() delivers the next line
HasLine == scanner.pos < Len(scanner.lines)
Text == scanner.lines[scanner.pos + 1]

EncompassBlank ==
    /\ pc = "Encompass"
    /\ HasLine
    /\ Text = <<>>
    /\ scanner' = [scanner EXCEPT !.pos = @ + 1]
    /\ UNCHANGED <<minVal, maxVal, foundNumber, stderr, encRet, mathVars, sparkVars, pc>>

EncompassUnparsable ==
    /\ pc = "Encompass"
    /\ HasLine
    /\ Text # <<>>
    /\ ParseFloat(Text).err # "nil"
    /\ stderr' = Append(stderr, Text)
    /\ scanner' = [scanner EXCEPT !.pos = @ + 1]
    /\ UNCHANGED <<minVal, maxVal, foundNumber, encRet, mathVars, sparkVars, pc>>

EncompassNumber ==
    /\ pc = "Encompass"
    /\ HasLine
    /\ Text # <<>>
    /\ ParseFloat(Text).err = "nil"
    /\ LET val == ParseFloat(Text).val
       IN  /\ minVal' = IF Lt(val, minVal) THEN val ELSE minVal
           /\ maxVal' = IF Gt(val, maxVal) THEN val ELSE maxVal
    /\ foundNumber' = TRUE
    /\ scanner' = [scanner EXCEPT !.pos = @ + 1]
    /\ UNCHANGED <<stderr, encRet, mathVars, sparkVars, pc>>

\* the end of Encompass with the no-data test made before the scanner.Err() test
EncompassReturn_NoDataFirst ==
    /\ pc = "Encompass"
    /\ ~HasLine
    /\ encRet' = IF ~foundNumber THEN [min |-> Zero, max |-> Zero, err |-> "no numbers"]
                 ELSE IF scanner.fails THEN [min |-> Zero, max |-> Zero, err |-> "read"]
                 ELSE [min |-> minVal, max |-> maxVal, err |-> "nil"]
    /\ pc' = "returned"
    /\ UNCHANGED <<scanner, minVal, maxVal, foundNumber, stderr, mathVars, sparkVars>>

\* scanner.Scan() returned false: end of input, or the source failed
EncompassReturn ==
    /\ pc = "Encompass"
    /\ ~HasLine
    /\ encRet' = IF scanner.fails THEN [min |-> Zero, max |-> Zero, err |-> "read"]
                 ELSE IF ~foundNumber THEN [min |-> Zero, max |-> Zero, err |-> "no numbers"]
                 ELSE [min |-> minVal, max |-> maxVal, err |-> "nil"]
    /\ pc' = "returned"
    /\ UNCHANGED <<scanner, minVal, maxVal, foundNumber, stderr, mathVars, sparkVars>>

----------------------------------------------------------------------------
\* GenerateSparkline(scanner, writer, config), one step per scanned line and
\* per field of it.  Its scanner yields lines and, when its source fails,
\* the error "read" once they are used up.

GenerateSparkline_NonZeroWidth ==
    /\ pc = "idle"
    /\ \E cfg \in Configs, lines \in SeqsUpTo(SparkLines, MaxSparkLines),
          fails \in BOOLEAN :
        /\ config' = cfg
        /\ scanner' = [lines |-> lines, pos |-> 0, fails |-> fails]
        /\ IF cfg.Width # 0 \/ cfg.HasMin
           THEN /\ buffer' = IF cfg.Width > 0
                             THEN newCircularBuffer(cfg.Width)
                             ELSE NilBuffer
                /\ pc' = "generateSparklineStream"
           ELSE /\ buffer' = NilBuffer
                /\ pc' = "readAllNumbers"
    /\ UNCHANGED <<writer, numbers, fields, sparkRet, mathVars, encLocals>>

GenerateSparkline ==
    /\ pc = "idle"
    /\ \E cfg \in Configs, lines \in SeqsUpTo(SparkLines, MaxSparkLines),
          fails \in BOOLEAN :
        /\ config' = cfg
        /\ scanner' = [lines |-> lines, pos |-> 0, fails |-> fails]
        /\ IF cfg.Width > 0 \/ cfg.HasMin
           THEN /\ buffer' = IF cfg.Width > 0
                             THEN newCircularBuffer(cfg.Width)
                             ELSE NilBuffer
                /\ pc' = "generateSparklineStream"
           ELSE /\ buffer' = NilBuffer
                /\ pc' = "readAllNumbers"
    /\ UNCHANGED <<writer, numbers, fields, sparkRet, mathVars, encLocals>>

\* the value of the next field, as strconv.ParseFloat(field, 64) returns it
Field == ParseFloat(Head(fields))

\* generateSparklineStream: scanner.Scan() and strings.Fields
StreamScan ==
    /\ pc = "generateSparklineStream"
    /\ fields = <<>>
    /\ HasLine
    /\ fields' = Fields(Text)
    /\ scanner' = [scanner EXCEPT !.pos = @ + 1]
    /\ UNCHANGED <<config, writer, numbers, buffer, sparkRet, mathVars, encLocals, pc>>

\* generateSparklineStream: a field that is not a number is skipped
StreamSkip ==
    /\ pc = "generateSparklineStream"
    /\ fields # <<>>
    /\ Field.err # "nil"
    /\ fields' = Tail(fields)
    /\ UNCHANGED <<config, writer, numbers, buffer, sparkRet, scanner, mathVars,
                   encLocals, pc>>

\* generateSparklineStream: a number, config.Width > 0
StreamSlidingWindow ==
    /\ pc = "generateSparklineStream"
    /\ fields # <<>>
    /\ Field.err = "nil"
    /\ config.Width > 0
    /\ \E undef \in IntOfNaN :
        LET cb == BufferAdd(buffer, Field.val)
            min == IF ~config.HasMin THEN MinMax(cb).min ELSE config.Min
            max == IF ~config.HasMin THEN MinMax(cb).max ELSE config.Max
            frame == renderSlidingWindow(cb, min, max, config.Color, undef)
        IN  /\ buffer' = cb
            /\ IF Panics(frame)
               THEN writer' = writer /\ fields' = fields /\ pc' = "panic"
               ELSE writer' = Append(writer, frame) /\ fields' = Tail(fields) /\ pc' = pc
    /\ UNCHANGED <<config, numbers, sparkRet, scanner, mathVars, encLocals>>

StreamGrowing_KeepsHistory ==
    /\ pc = "generateSparklineStream"
    /\ fields # <<>>
    /\ Field.err = "nil"
    /\ ~(config.Width > 0)
    /\ \E undef \in IntOfNaN :
        LET charBuilder == renderGrowingCharacter(Field.val, config.Min, config.Max, undef)
        IN  IF Panics(charBuilder)
            THEN writer' = writer /\ fields' = fields /\ pc' = "panic"
            ELSE /\ writer' = Append(writer, applyColor(charBuilder, config.Color))
                 /\ fields' = Tail(fields)
                 /\ pc' = pc
    /\ numbers' = Append(numbers, Field.val)
    /\ UNCHANGED <<config, buffer, sparkRet, scanner, mathVars, encLocals>>

\* generateSparklineStream: a number, config.Width <= 0
StreamGrowing ==
    /\ pc = "generateSparklineStream"
    /\ fields # <<>>
    /\ Field.err = "nil"
    /\ ~(config.Width > 0)
    /\ \E undef \in IntOfNaN :
        LET charBuilder == renderGrowingCharacter(Field.val, config.Min, config.Max, undef)
        IN  IF Panics(charBuilder)
            THEN writer' = writer /\ fields' = fields /\ pc' = "panic"
            ELSE /\ writer' = Append(writer, applyColor(charBuilder, config.Color))
                 /\ fields' = Tail(fields)
                 /\ pc' = pc
    /\ UNCHANGED <<config, numbers, buffer, sparkRet, scanner, mathVars, encLocals>>

\* generateSparklineStream: return scanner.Err()
StreamReturn ==
    /\ pc = "generateSparklineStream"
    /\ fields = <<>>
    /\ ~HasLine
    /\ sparkRet' = IF scanner.fails THEN "read" ELSE "nil"
    /\ pc' = "returned"
    /\ UNCHANGED <<config, writer, numbers, buffer, fields, scanner, mathVars, encLocals>>

\* readAllNumbers: scanner.Scan() and strings.Fields
ReadAllScan ==
    /\ pc = "readAllNumbers"
    /\ fields = <<>>
    /\ HasLine
    /\ fields' = Fields(Text)
    /\ scanner' = [scanner EXCEPT !.pos = @ + 1]
    /\ UNCHANGED <<config, writer, numbers, buffer, sparkRet, mathVars, encLocals, pc>>

\* readAllNumbers: one field, appended when it is a number
ReadAllField ==
    /\ pc = "readAllNumbers"
    /\ fields # <<>>
    /\ numbers' = IF Field.err = "nil" THEN Append(numbers, Field.val) ELSE numbers
    /\ fields' = Tail(fields)
    /\ UNCHANGED <<config, writer, buffer, sparkRet, scanner, mathVars, encLocals, pc>>

ReadAllReturn_IgnoresError ==
    /\ pc = "readAllNumbers"
    /\ fields = <<>>
    /\ ~HasLine
    /\ sparkRet' = sparkRet /\ pc' = "generateSparklineFromSlice"
    /\ UNCHANGED <<config, writer, numbers, buffer, fields, scanner, mathVars, encLocals>>

\* readAllNumbers returns (numbers, scanner.Err()); GenerateSparkline returns
\* the error or goes on to generateSparklineFromSlice
ReadAllReturn ==
    /\ pc = "readAllNumbers"
    /\ fields = <<>>
    /\ ~HasLine
    /\ IF scanner.fails
       THEN sparkRet' = "read" /\ pc' = "returned"
       ELSE sparkRet' = sparkRet /\ pc' = "generateSparklineFromSlice"
    /\ UNCHANGED <<config, writer, numbers, buffer, fields, scanner, mathVars, encLocals>>

\* generateSparklineFromSlice(numbers, writer, config)
FromSlice ==
    /\ pc = "generateSparklineFromSlice"
    /\ \E undef \in IntOfNaN :
        LET line == generateSparklineFromSlice(numbers, config, undef)
        IN  IF Len(numbers) = 0
            THEN writer' = writer /\ sparkRet' = "nil" /\ pc' = "returned"
            ELSE IF Panics(line)
            THEN writer' = writer /\ sparkRet' = sparkRet /\ pc' = "panic"
            ELSE writer' = Append(writer, line) /\ sparkRet' = "nil" /\ pc' = "returned"
    /\ UNCHANGED <<config, numbers, buffer, fields, scanner, mathVars, encLocals>>

Next ==
    \/ CallLimit
    \/ CallDeval
    \/ CallEval
    \/ CallRemap
    \/ CallSnap
    \/ CallDivide
    \/ CallRandom
    \/ CallSubintervals
    \/ CallEncompass
    \/ EncompassBlank
    \/ EncompassUnparsable
    \/ EncompassNumber
    \/ EncompassReturn

Spec == Init /\ [][Next]_vars

SparkNext ==
    \/ GenerateSparkline
    \/ StreamScan
    \/ StreamSkip
    \/ StreamSlidingWindow
    \/ StreamGrowing
    \/ StreamReturn
    \/ ReadAllScan
    \/ ReadAllField
    \/ ReadAllReturn
    \/ FromSlice

SparkSpec == Init /\ [][SparkNext]_vars

----------------------------------------------------------------------------
\* Properties

Returned(op) == pc = "returned" /\ call.op = op
Arg(i) == call.args[i]
AllFinite(S) == \A x \in S : IsFinite(x)

MinOf(x, y) == IF Lt(y, x) THEN y ELSE x
MaxOf(x, y) == IF Gt(y, x) THEN y ELSE x

\* C1: clamp order-invariance: for every value x (finite, +Inf or -Inf) and
\* every pair of bounds, Limit(x, lo, hi) returns the same as Limit(x, hi, lo).
C1_ClampOrderInvariance ==
    (Returned("Limit") /\ ~IsNaN(Arg(1)))
        => ret.val = Limit(Arg(1), Arg(3), Arg(2))

\* the point of [lo, hi] nearest to x, lo <= hi
Nearest(x, lo, hi) == IF Lt(x, lo) THEN lo ELSE IF Gt(x, hi) THEN hi ELSE x

\* C2: Limit(x, lo, hi) returns the point of [min(lo,hi), max(lo,hi)] nearest
\* to x; +Inf yields max(lo,hi) and -Inf yields min(lo,hi), whichever order the
\* bounds are given in.
C2_ClampNearestPoint ==
    (Returned("Limit") /\ ~IsNaN(Arg(1)) /\ AllFinite({Arg(2), Arg(3)}))
        => ret.val = Nearest(Arg(1), MinOf(Arg(2), Arg(3)), MaxOf(Arg(2), Arg(3)))

\* C3 as stated: on finite inputs Deval returns (value-a)/(b-a) when |b-a| is
\* not below the tolerance; when it is below, Deval returns 0 without error if
\* value lies within the tolerance of a, and fails only if |value-a| exceeds
\* the tolerance.
C3_DevalFailsOnlyBeyondTolerance ==
    (Returned("Deval") /\ AllFinite({Arg(1), Arg(2), Arg(3)}))
        => LET delta == Sub(Arg(3), Arg(2))
               dist == Abs(Sub(Arg(1), Arg(2)))
           IN  IF ~Lt(Abs(delta), epsilon)
               THEN ret.err = "nil" /\ Mul(ret.val, delta) = Sub(Arg(1), Arg(2))
               ELSE /\ ret.err # "nil" => Gt(dist, epsilon)
                    /\ ret.err = "nil" => ret.val = Zero

\* C3 amended: ... when |b-a| is below the tolerance, Deval returns 0 without
\* error if |value-a| is below the tolerance and fails otherwise, so it fails
\* also when |value-a| equals the tolerance.
C3_DevalTolerance ==
    (Returned("Deval") /\ AllFinite({Arg(1), Arg(2), Arg(3)}))
        => LET delta == Sub(Arg(3), Arg(2))
               dist == Abs(Sub(Arg(1), Arg(2)))
           IN  IF ~Lt(Abs(delta), epsilon)
               THEN ret.err = "nil" /\ Mul(ret.val, delta) = Sub(Arg(1), Arg(2))
               ELSE IF Lt(dist, epsilon)
               THEN ret.err = "nil" /\ ret.val = Zero
               ELSE ret.err = "near-zero delta"

\* Deval was called on a near-zero-width interval with |value-a| exactly the
\* tolerance, and failed
C3_Witness ==
    /\ Returned("Deval")
    /\ AllFinite({Arg(1), Arg(2), Arg(3)})
    /\ Arg(2) # Arg(3)
    /\ Lt(Abs(Sub(Arg(3), Arg(2))), epsilon)
    /\ Abs(Sub(Arg(1), Arg(2))) = epsilon
    /\ ret.err = "near-zero delta"

FloatArgs ==
    CASE call.op \in {"Deval", "Eval", "Limit"} -> {Arg(1), Arg(2), Arg(3)}
      [] call.op = "Remap" -> {Arg(1), Arg(2), Arg(3), Arg(4), Arg(5)}
      [] call.op = "Snap" -> {Arg(1), Arg(3), Arg(4)}
      [] call.op \in {"Divide", "Subintervals"} -> {Arg(2), Arg(3)}
      [] call.op = "Random" -> {Arg(3), Arg(4)}
      [] OTHER -> {}

\* the values Encompass has parsed from the lines read so far
ParsedValues ==
    { ParseFloat(scanner.lines[i]).val :
        i \in { j \in 1..scanner.pos : ParseFloat(scanner.lines[j]).err = "nil" } }

\* C5: Deval, Remap, Snap, Divide, Subintervals, Random and Encompass return
\* an error whenever one of their numeric inputs (for Encompass: a value
\* parsed from the stream) is NaN, +Inf or -Inf.
C5_NonFiniteRejected ==
    /\ (pc = "returned"
          /\ call.op \in {"Deval", "Remap", "Snap", "Divide", "Subintervals", "Random"}
          /\ ~AllFinite(FloatArgs))
        => ret.err # "nil"
    /\ (pc = "returned" /\ encRet.err # "none" /\ ~AllFinite(ParsedValues))
        => encRet.err # "nil"

C7_ClampIdempotent ==
    Returned("Limit") => Limit(ret.val, Arg(2), Arg(3)) = ret.val

GridPoint(k, steps, a, b) == Add(a, Div(Mul(Float(k), Sub(b, a)), Float(steps)))

HalfWay(val, k, steps, a, b) ==
    /\ GridPoint(k, steps, a, b) # GridPoint(k + 1, steps, a, b)
    /\ Add(val, val) = Add(GridPoint(k, steps, a, b), GridPoint(k + 1, steps, a, b))

\* C10 as stated: a value exactly half-way between two adjacent grid points
\* snaps to the numerically greater of the two, for ascending and for
\* inverted intervals alike.
C10_SnapHalfWayToGreater ==
    (Returned("Snap") /\ AllFinite({Arg(1), Arg(3), Arg(4)}) /\ Arg(2) > 0)
        => \A k \in 0..(Arg(2) - 1) :
              HalfWay(Arg(1), k, Arg(2), Arg(3), Arg(4))
                  => ret.val = MaxOf(GridPoint(k, Arg(2), Arg(3), Arg(4)),
                                     GridPoint(k + 1, Arg(2), Arg(3), Arg(4)))

\* C10 amended: on an interval whose width is not below the tolerance a value
\* exactly half-way between two adjacent grid points snaps to the one with the
\* higher index, the one nearer b: the numerically greater on an ascending
\* interval, the numerically smaller on an inverted one; on a narrower
\* interval it snaps to a.
C10_SnapHalfWayTowardsB ==
    (Returned("Snap") /\ AllFinite({Arg(1), Arg(3), Arg(4)}) /\ Arg(2) > 0)
        => \A k \in 0..(Arg(2) - 1) :
              HalfWay(Arg(1), k, Arg(2), Arg(3), Arg(4))
                  => ret.val = IF Lt(Abs(Sub(Arg(4), Arg(3))), epsilon)
                               THEN Arg(3)
                               ELSE GridPoint(k + 1, Arg(2), Arg(3), Arg(4))

\* Snap was given a half-way value on an inverted interval and returned the
\* smaller neighbour
C10_Witness ==
    /\ Returned("Snap")
    /\ AllFinite({Arg(1), Arg(3), Arg(4)})
    /\ Arg(2) > 0
    /\ Gt(Arg(3), Arg(4))
    /\ \E k \in 0..(Arg(2) - 1) :
          /\ HalfWay(Arg(1), k, Arg(2), Arg(3), Arg(4))
          /\ ret.val = GridPoint(k + 1, Arg(2), Arg(3), Arg(4))
          /\ Lt(ret.val, Arg(1))

\* C11: for finite value, a and b, Snap fails if and only if steps <= 0; with
\* steps > 0 it never fails, also on a zero-width or near-zero-width interval,
\* and a = b yields a.
C11_SnapFailsIffNoSteps ==
    (Returned("Snap") /\ AllFinite({Arg(1), Arg(3), Arg(4)}))
        => /\ (ret.err # "nil") <=> (Arg(2) <= 0)
           /\ (Arg(2) > 0 /\ Arg(3) = Arg(4)) => ret.val = Arg(3)

\* Snap succeeded on a value strictly inside an interval narrower than the
\* tolerance
C11_Witness ==
    /\ Returned("Snap")
    /\ AllFinite({Arg(1), Arg(3), Arg(4)})
    /\ Arg(2) > 0
    /\ Lt(Abs(Sub(Arg(4), Arg(3))), epsilon)
    /\ Lt(MinOf(Arg(3), Arg(4)), Arg(1))
    /\ Lt(Arg(1), MaxOf(Arg(3), Arg(4)))
    /\ ret.err = "nil"

C14_SubintervalsMatchDivide ==
    Returned("Subintervals")
        => LET d == Divide(Arg(1), Arg(2), Arg(3))
           IN  /\ (ret.err = "nil") <=> (d.err = "nil")
               /\ ret.err = "nil" =>
                     /\ Len(ret.val) = Len(d.val)
                     /\ \A i \in 1..Len(d.val) : ret.val[i][1] = d.val[i]

\* Subintervals and Divide both cut an inverted interval into several segments
C14_Witness ==
    /\ Returned("Subintervals")
    /\ AllFinite({Arg(2), Arg(3)})
    /\ Arg(1) > 1
    /\ Gt(Arg(2), Arg(3))
    /\ ret.err = "nil"
    /\ Divide(Arg(1), Arg(2), Arg(3)).err = "nil"
    /\ ret.val[2][1] # Arg(2)

EncompassDone == pc = "returned" /\ encRet.err # "none"

\* C16: Encompass returns exactly the minimum and the maximum of the numbers
\* on the parsable lines of the stream, whatever their order and whatever
\* blank or unparsable lines lie between them.
C16_EncompassMinMax ==
    (EncompassDone /\ encRet.err = "nil")
        => /\ encRet.min \in ParsedValues
           /\ encRet.max \in ParsedValues
           /\ \A v \in ParsedValues :
                 ~IsNaN(v) => Le(encRet.min, v) /\ Le(v, encRet.max)

\* C17: Encompass fails with a no-data error if and only if the stream ended
\* cleanly with no parsable number, and with a read error whenever the source
\* fails, even after valid numbers; in both cases no partial (min, max) is
\* returned.
C17_EncompassErrors ==
    EncompassDone
        => /\ (encRet.err = "read") <=> scanner.fails
           /\ (encRet.err = "no numbers") <=> (~scanner.fails /\ ParsedValues = {})
           /\ encRet.err # "nil" => encRet.min = Zero /\ encRet.max = Zero

\* the source failed after Encompass had read a number behind an unparsable
\* line, and Encompass returned the read error
C17_Witness ==
    /\ EncompassDone
    /\ scanner.fails
    /\ foundNumber
    /\ stderr # <<>>
    /\ minVal # PosInf
    /\ encRet = [min |-> Zero, max |-> Zero, err |-> "read"]

----------------------------------------------------------------------------
\* processStream(format, proc) of src/main.go, one step per line of stdin.
\* call holds the command: the operation behind proc, its arguments and the
\* output format.

ProcVals == {Zero, Rat(2, 1), PosInf}
Formats == {"%g", "%.2f"}

\* the commands that run processStream
Commands ==
    [op : {"remap"}, args : ProcVals \X ProcVals \X {Zero, Rat(2, 1)} \X {Rat(2, 1)},
     format : Formats]
    \union [op : {"limit", "eval", "deval"}, args : ProcVals \X ProcVals, format : Formats]
    \union [op : {"snap"}, args : StepCounts \X ProcVals \X ProcVals, format : Formats]

\* the closure passed as proc by each command
proc(cmd, val) ==
    CASE cmd.op = "remap" ->
            Remap(val, cmd.args[1], cmd.args[2], cmd.args[3], cmd.args[4])
      [] cmd.op = "limit" -> Ok(Limit(val, cmd.args[1], cmd.args[2]))
      [] cmd.op = "eval" -> Ok(Eval(val, cmd.args[1], cmd.args[2]))
      [] cmd.op = "deval" -> Deval(val, cmd.args[1], cmd.args[2])
      [] cmd.op = "snap" -> Snap(val, cmd.args[1], cmd.args[2], cmd.args[3])

\* fmt.Printf(format + "\n", v): the text of v in the format, and a newline
Printf(format, v) == <<[format |-> format, value |-> v], "\n">>

CallProcessStream ==
    /\ pc = "idle"
    /\ \E cmd \in Commands, lines \in SeqsUpTo(Lines, MaxStreamLines),
          fails \in BOOLEAN :
        /\ call' = cmd
        /\ scanner' = [lines |-> lines, pos |-> 0, fails |-> fails]
    /\ pc' = "processStream"
    /\ UNCHANGED <<ret, encLocals, sparkVars>>

\* if line == "" { continue }
ProcessEmpty ==
    /\ pc = "processStream"
    /\ HasLine
    /\ Text = <<>>
    /\ scanner' = [scanner EXCEPT !.pos = @ + 1]
    /\ UNCHANGED <<mathVars, encLocals, sparkVars, pc>>

\* strconv.ParseFloat fails: warning, continue
ProcessUnparsable ==
    /\ pc = "processStream"
    /\ HasLine
    /\ Text # <<>>
    /\ ParseFloat(Text).err # "nil"
    /\ stderr' = Append(stderr, <<"could not parse input value", Text>>)
    /\ scanner' = [scanner EXCEPT !.pos = @ + 1]
    /\ UNCHANGED <<mathVars, minVal, maxVal, foundNumber, encRet, sparkVars, pc>>

\* proc(val) fails: warning, continue
ProcessFailed_Aborts ==
    /\ pc = "processStream"
    /\ HasLine
    /\ Text # <<>>
    /\ ParseFloat(Text).err = "nil"
    /\ proc(call, ParseFloat(Text).val).err # "nil"
    /\ stderr' = Append(stderr, <<"could not process value", ParseFloat(Text).val>>)
    /\ pc' = "exited"
    /\ UNCHANGED <<mathVars, scanner, minVal, maxVal, foundNumber, encRet, sparkVars>>

ProcessFailed ==
    /\ pc = "processStream"
    /\ HasLine
    /\ Text # <<>>
    /\ ParseFloat(Text).err = "nil"
    /\ proc(call, ParseFloat(Text).val).err # "nil"
    /\ stderr' = Append(stderr, <<"could not process value", ParseFloat(Text).val>>)
    /\ scanner' = [scanner EXCEPT !.pos = @ + 1]
    /\ UNCHANGED <<mathVars, minVal, maxVal, foundNumber, encRet, sparkVars, pc>>

\* proc(val) succeeds: the result is printed
ProcessPrint ==
    /\ pc = "processStream"
    /\ HasLine
    /\ Text # <<>>
    /\ ParseFloat(Text).err = "nil"
    /\ LET r == proc(call, ParseFloat(Text).val)
       IN  /\ r.err = "nil"
           /\ writer' = Append(writer, Printf(call.format, r.val))
    /\ scanner' = [scanner EXCEPT !.pos = @ + 1]
    /\ UNCHANGED <<mathVars, encLocals, config, numbers, buffer, fields, sparkRet, pc>>

\* scanner.Err() after the loop: an error message and os.Exit(1), or return
ProcessEnd ==
    /\ pc = "processStream"
    /\ ~HasLine
    /\ IF scanner.fails
       THEN /\ stderr' = Append(stderr, <<"Error reading from stdin">>)
            /\ pc' = "exited"
       ELSE /\ stderr' = stderr
            /\ pc' = "returned"
    /\ UNCHANGED <<mathVars, scanner, minVal, maxVal, foundNumber, encRet, sparkVars>>

StreamNext ==
    \/ CallProcessStream
    \/ ProcessEmpty
    \/ ProcessUnparsable
    \/ ProcessFailed
    \/ ProcessPrint
    \/ ProcessEnd

StreamSpec == Init /\ [][StreamNext]_vars

----------------------------------------------------------------------------
\* The circular buffer on its own: newCircularBuffer(size), then calls of
\* Add.  call.args holds the size asked for, followed by the values added.

BufferSizes == -1..MaxCapacity
BufferVals == {Zero, Rat(1, 1), Rat(2, 1), NaN}

CallNewCircularBuffer ==
    /\ pc = "idle"
    /\ \E size \in BufferSizes :
        /\ call' = [op |-> "circularBuffer", args |-> <<size>>]
        /\ buffer' = newCircularBuffer(size)
    /\ pc' = "circularBuffer"
    /\ UNCHANGED <<ret, scanner, encLocals, config, writer, numbers, fields, sparkRet>>

\* cb.Add(val); an index outside cb.data is a run-time panic
CallAdd ==
    /\ pc = "circularBuffer"
    /\ Len(call.args) <= MaxAdds
    /\ \E val \in BufferVals :
        /\ call' = [call EXCEPT !.args = Append(@, val)]
        /\ IF buffer.head < Len(buffer.data)
           THEN buffer' = BufferAdd(buffer, val) /\ pc' = pc
           ELSE buffer' = buffer /\ pc' = "panic"
    /\ UNCHANGED <<ret, scanner, encLocals, config, writer, numbers, fields, sparkRet>>

BufferNext ==
    \/ CallNewCircularBuffer
    \/ CallAdd

BufferSpec == Init /\ [][BufferNext]_vars

----------------------------------------------------------------------------
\* The three renderers on their own, applied to samples and scales of any
\* magnitude.  The input sets of the specifications above keep away from
\* MaxFloat64; here the width of a scale may overflow.

RenderVals == {Rat(-600, 1), Zero, Rat(2, 1), Rat(600, 1), NaN, PosInf}
RenderSlices == SeqsUpTo(RenderVals, MaxRendered) \ {<<>>}
RenderConfigs ==
    { c \in [Min : RenderVals, Max : RenderVals, HasMin : BOOLEAN, HasMax : BOOLEAN,
             Width : {0}, Color : {ColorNone}] :
        /\ ~c.HasMin => c.Min = Zero
        /\ ~c.HasMax => c.Max = Zero }

\* what a renderer's caller does with the string rendered
Rendered_(op, args, out) ==
    /\ call' = [op |-> op, args |-> args]
    /\ IF Panics(out)
       THEN writer' = writer /\ pc' = "panic"
       ELSE writer' = Append(writer, out) /\ pc' = "returned"

CallRenderGrowingCharacter ==
    /\ pc = "idle"
    /\ \E val \in RenderVals, min \in RenderVals, max \in RenderVals, undef \in IntOfNaN :
        /\ config' = [NoConfig EXCEPT !.Min = min, !.Max = max,
                                      !.HasMin = TRUE, !.HasMax = TRUE]
        /\ Rendered_("renderGrowingCharacter", <<val>>,
                     renderGrowingCharacter(val, min, max, undef))
    /\ UNCHANGED <<ret, scanner, encLocals, numbers, buffer, fields, sparkRet>>

\* the window holds nums; the scale is fixed or, as generateSparklineStream
\* passes it, buffer.MinMax()
CallRenderSlidingWindow ==
    /\ pc = "idle"
    /\ \E nums \in RenderSlices, fixed \in BOOLEAN, min \in RenderVals,
          max \in RenderVals, undef \in IntOfNaN :
        LET cb == BufferOf(nums, newCircularBuffer(Len(nums)))
            lo == IF fixed THEN min ELSE MinMax(cb).min
            hi == IF fixed THEN max ELSE MinMax(cb).max
        IN  /\ fixed \/ (min = Zero /\ max = Zero)
            /\ config' = [NoConfig EXCEPT !.Min = min, !.Max = max, !.HasMin = fixed,
                                          !.HasMax = fixed, !.Width = Len(nums)]
            /\ buffer' = cb
            /\ Rendered_("renderSlidingWindow", nums,
                         renderSlidingWindow(cb, lo, hi, ColorNone, undef))
    /\ UNCHANGED <<ret, scanner, encLocals, numbers, fields, sparkRet>>

CallGenerateSparklineFromSlice ==
    /\ pc = "idle"
    /\ \E nums \in RenderSlices, cfg \in RenderConfigs, undef \in IntOfNaN :
        /\ config' = cfg
        /\ numbers' = nums
        /\ Rendered_("generateSparklineFromSlice", nums,
                     generateSparklineFromSlice(nums, cfg, undef))
    /\ UNCHANGED <<ret, scanner, encLocals, buffer, fields, sparkRet>>

RenderNext ==
    \/ CallRenderGrowingCharacter
    \/ CallRenderSlidingWindow
    \/ CallGenerateSparklineFromSlice

RenderSpec == Init /\ [][RenderNext]_vars

----------------------------------------------------------------------------
\* Sparkline renderer: what a state of GenerateSparkline shows

RECURSIVE AllFields(_)
AllFields(lines) ==
    IF lines = <<>> THEN <<>> ELSE Fields(Head(lines)) \o AllFields(Tail(lines))

\* the samples processed so far: the numeric fields of the lines scanned,
\* without the fields of the current line that are still to come
Samples ==
    LET scanned == AllFields(SubSeq(scanner.lines, 1, scanner.pos))
        done == SubSeq(scanned, 1, Len(scanned) - Len(fields))
        nums == SelectSeq(done, LAMBDA f : ParseFloat(f).err = "nil")
    IN  [i \in 1..Len(nums) |-> ParseFloat(nums[i]).val]

IsGlyph(c) == \E i \in 1..Len(SparkCharacters) : SparkCharacters[i] = c
Glyphs(str) == SelectSeq(str, IsGlyph)
LowestGlyph == SparkCharacters[1]

SlidingWindowMode == config.Width > 0
GrowingMode == ~(config.Width > 0) /\ config.HasMin
BufferedMode == ~(config.Width > 0) /\ ~config.HasMin

Streaming == pc \in {"generateSparklineStream", "returned"}
Buffering == pc \in {"readAllNumbers", "generateSparklineFromSlice", "returned"}

\* C18: GenerateSparkline runs exactly one strategy, chosen by the
\* configuration alone.  With a width > 0, whatever the bounds, it streams
\* through a circular buffer of that width and writes one frame that starts
\* with a carriage return per sample.  Otherwise (a width <= 0 is no width),
\* with a fixed lower bound it streams without a buffer and writes one glyph
\* per sample.  Otherwise it reads all the samples first and writes at most
\* once, after the input has ended.
C18_ModeSelection ==
    pc # "idle" =>
        /\ SlidingWindowMode =>
            /\ Streaming
            /\ ~buffer.nil /\ Len(buffer.data) = config.Width
            /\ numbers = <<>>
            /\ Len(writer) = Len(Samples)
            /\ \A k \in 1..Len(writer) : Head(writer[k]) = "\r"
        /\ GrowingMode =>
            /\ Streaming
            /\ buffer.nil
            /\ numbers = <<>>
            /\ Len(writer) = Len(Samples)
            /\ \A k \in 1..Len(writer) :
                Head(writer[k]) # "\r" /\ Len(Glyphs(writer[k])) = 1
        /\ BufferedMode =>
            /\ Buffering
            /\ buffer.nil
            /\ pc # "returned" => writer = <<>> /\ numbers = Samples
            /\ Len(writer) <= 1
            /\ \A k \in 1..Len(writer) :
                Head(writer[k]) # "\r" /\ Len(Glyphs(writer[k])) = Len(Samples)

\* a sliding window of width 2 was chosen although both bounds are fixed,
\* and has written a frame for each of three samples
C18_Witness ==
    /\ pc = "returned"
    /\ config.Width = 2 /\ config.HasMin /\ config.HasMax
    /\ Len(writer) = 3
    /\ Len(Glyphs(writer[3])) = 2

\* the samples drawn by the latest write, and the scale they were drawn on
Rendered ==
    IF SlidingWindowMode THEN GetAll(buffer)
    ELSE IF GrowingMode THEN <<Samples[Len(Samples)]>>
    ELSE numbers

ActiveScale ==
    IF SlidingWindowMode /\ ~config.HasMin THEN MinMax(buffer)
    ELSE IF ~BufferedMode THEN [min |-> config.Min, max |-> config.Max]
    ELSE [min |-> SliceMin(numbers, PosInf),
          max |-> IF config.HasMax THEN config.Max ELSE SliceMax(numbers, NegInf)]

LatestGlyphs == Glyphs(writer[Len(writer)])

\* Remap(sample, min, max, 0, 7), taken as 0 when Remap fails
RampPosition(sample, scale) ==
    LET r == Remap(sample, scale.min, scale.max, Zero, Float(Len(SparkCharacters) - 1))
    IN  IF r.err = "nil" THEN r.val ELSE Zero

ClampIndex(i) ==
    IF i < 0 THEN 0
    ELSE IF i > Len(SparkCharacters) - 1 THEN Len(SparkCharacters) - 1
    ELSE i

\* the ramp position rounded to the nearest index, halves away from zero
RoundedIndex(sample, scale) ==
    LET x == RampPosition(sample, scale)
    IN  ClampIndex(SignOf(x) * ((2 * AbsInt(x.n) + x.d) \div (2 * x.d)))

\* the ramp position with its fraction dropped
TruncatedIndex(sample, scale) ==
    LET x == RampPosition(sample, scale)
    IN  ClampIndex(SignOf(x) * (AbsInt(x.n) \div x.d))

\* C19 as stated: in every mode, when the active scale does not have zero
\* width, each glyph of a write is the ramp entry at
\* round(Remap(sample, min, max, 0, 7)) clamped into [0, 7].
C19_GlyphIndexRounded ==
    (Len(writer) > 0 /\ ~Eq(ActiveScale.min, ActiveScale.max)) =>
        LatestGlyphs =
            [i \in 1..Len(Rendered) |->
                SparkCharacters[RoundedIndex(Rendered[i], ActiveScale) + 1]]

\* C19 amended: in every mode, when the active scale has max > min, each
\* glyph of a write is the ramp entry at Remap(sample, min, max, 0, 7) with
\* its fraction dropped (truncated, not rounded), clamped into [0, 7]; a
\* Remap that fails counts as 0.
C19_GlyphIndexTruncated ==
    (Len(writer) > 0 /\ Gt(ActiveScale.max, ActiveScale.min)) =>
        LatestGlyphs =
            [i \in 1..Len(Rendered) |->
                SparkCharacters[TruncatedIndex(Rendered[i], ActiveScale) + 1]]

\* a write on a scale with max > min drew a sample whose ramp position lies
\* half-way or more above an index, where rounding and truncating differ
C19_Witness ==
    /\ Len(writer) > 0
    /\ Gt(ActiveScale.max, ActiveScale.min)
    /\ \E i \in 1..Len(Rendered) :
        TruncatedIndex(Rendered[i], ActiveScale) # RoundedIndex(Rendered[i], ActiveScale)

AllLowest(str) == \A i \in 1..Len(Glyphs(str)) : Glyphs(str)[i] = LowestGlyph

\* the scale is computed from the samples
AutoScaled == ~config.HasMin /\ (SlidingWindowMode \/ ~config.HasMax)

AllEqualSamples == \A i, j \in 1..Len(Samples) : Eq(Samples[i], Samples[j])

\* C20: in every mode, a write on a scale with max == min draws every one
\* of its samples with the lowest glyph of the ramp, and GenerateSparkline
\* fails only when its scanner does; so in the auto-scaled modes a stream
\* of all-equal samples is drawn with the lowest glyph throughout.
C20_ZeroWidthScale ==
    /\ (Len(writer) > 0 /\ Eq(ActiveScale.min, ActiveScale.max)) =>
        /\ Len(LatestGlyphs) = Len(Rendered)
        /\ AllLowest(writer[Len(writer)])
    /\ sparkRet = "read" => scanner.fails
    /\ (pc = "returned" /\ ~scanner.fails) => sparkRet = "nil"
    /\ (AutoScaled /\ AllEqualSamples) =>
        /\ \A k \in 1..Len(writer) : AllLowest(writer[k])
        /\ (pc = "returned" /\ sparkRet = "nil" /\ Len(Samples) > 0) =>
            Len(Glyphs(writer[Len(writer)])) > 0

\* an auto-scaled run has returned after drawing two or more equal samples
\* on the zero-width scale they span
C20_Witness ==
    /\ pc = "returned" /\ sparkRet = "nil"
    /\ AutoScaled
    /\ Len(Samples) >= 2 /\ AllEqualSamples
    /\ Len(writer) > 0
    /\ Eq(ActiveScale.min, ActiveScale.max)
    /\ Len(LatestGlyphs) >= 2

----------------------------------------------------------------------------
\* Sliding-window mode

\* the last n elements of a sequence (all of it when it is shorter)
LastN(seq, n) ==
    IF Len(seq) <= n THEN seq ELSE SubSeq(seq, Len(seq) - n + 1, Len(seq))

\* the samples a window of the configured width holds
Window == LastN(Samples, config.Width)

\* the least and the greatest number among the samples of a sequence
NumbersOf(seq) == { seq[i] : i \in { j \in 1..Len(seq) : ~IsNaN(seq[j]) } }
LeastOf(seq) ==
    IF NumbersOf(seq) = {} THEN NaN
    ELSE CHOOSE m \in NumbersOf(seq) : \A x \in NumbersOf(seq) : Le(m, x)
GreatestOf(seq) ==
    IF NumbersOf(seq) = {} THEN NaN
    ELSE CHOOSE m \in NumbersOf(seq) : \A x \in NumbersOf(seq) : Ge(m, x)

WindowScale ==
    IF config.HasMin
    THEN [min |-> config.Min, max |-> config.Max]
    ELSE [min |-> LeastOf(Window), max |-> GreatestOf(Window)]

\* the glyph of a sample on a scale, by the renderer's index rule
GlyphOn(sample, scale) ==
    IF Gt(scale.max, scale.min)
    THEN SparkCharacters[TruncatedIndex(sample, scale) + 1]
    ELSE LowestGlyph

\* C21: in sliding-window mode one frame has been written per valid sample;
\* the latest frame is a carriage return followed by the glyphs of the last
\* min(k, width) samples, oldest first, drawn on the fixed scale or, with
\* auto-scale, on the least and greatest of just those samples.
C21_SlidingWindowFrames ==
    (pc # "idle" /\ SlidingWindowMode) =>
        /\ Len(writer) = Len(Samples)
        /\ Len(writer) > 0 =>
            /\ Head(writer[Len(writer)]) = "\r"
            /\ Len(SelectSeq(writer[Len(writer)], LAMBDA c : c = "\r")) = 1
            /\ LatestGlyphs = [i \in 1..Len(Window) |-> GlyphOn(Window[i], WindowScale)]

----------------------------------------------------------------------------
\* Colour

RECURSIVE Concat(_)
Concat(strs) == IF strs = <<>> THEN <<>> ELSE Head(strs) \o Concat(Tail(strs))

\* the k-th write of the run on the same input with no colour configured
PlainWrite(k) ==
    IF SlidingWindowMode
    THEN LET cb == BufferOf(SubSeq(Samples, 1, k), newCircularBuffer(config.Width))
             scale == IF config.HasMin
                      THEN [min |-> config.Min, max |-> config.Max]
                      ELSE MinMax(cb)
         IN  renderSlidingWindow(cb, scale.min, scale.max, ColorNone, 0)
    ELSE IF GrowingMode
    THEN renderGrowingCharacter(Samples[k], config.Min, config.Max, 0)
    ELSE generateSparklineFromSlice(Samples, [config EXCEPT !.Color = ColorNone], 0)

\* a string between one start-colour code and one reset code
Wrapped(str) ==
    IF config.Color = ColorNone THEN str ELSE <<config.Color>> \o str \o <<ColorReset>>

\* C22 as stated: the output with a colour is the output without it, except
\* that the whole line (growing and buffered modes) or each frame (sliding
\* window) is wrapped in exactly one start-colour / reset pair.
C22_ColorWrapsWholeLine ==
    /\ SlidingWindowMode =>
        \A k \in 1..Len(writer) :
            /\ Glyphs(PlainWrite(k)) = Tail(PlainWrite(k))
            /\ writer[k] = <<"\r">> \o Wrapped(Tail(PlainWrite(k)))
    /\ (~SlidingWindowMode /\ Len(writer) > 0) =>
        /\ Glyphs(Concat(writer)) = Concat([k \in 1..Len(writer) |-> PlainWrite(k)])
        /\ Concat(writer) = Wrapped(Glyphs(Concat(writer)))

\* C22 amended: the output with a colour is the output without it, except
\* that each write is wrapped in exactly one start-colour / reset pair: each
\* frame after its carriage return (sliding window), each single glyph
\* (growing mode), the whole line (buffered mode).
C22_ColorWrapsEachWrite ==
    \A k \in 1..Len(writer) :
        IF SlidingWindowMode
        THEN /\ Glyphs(PlainWrite(k)) = Tail(PlainWrite(k))
             /\ writer[k] = <<"\r">> \o Wrapped(Tail(PlainWrite(k)))
        ELSE /\ Glyphs(PlainWrite(k)) = PlainWrite(k)
             /\ writer[k] = Wrapped(PlainWrite(k))

\* a coloured run in growing mode has written two glyphs, each in its own
\* pair of codes
C22_Witness ==
    /\ pc = "returned"
    /\ config.Color = ColorRed
    /\ GrowingMode
    /\ Len(writer) = 2
    /\ Len(SelectSeq(Concat(writer), LAMBDA c : c = ColorReset)) = 2

----------------------------------------------------------------------------
\* Fixed-interval growing mode

FixedScale == [min |-> config.Min, max |-> config.Max]

\* the fields still to be processed are the last fields of the line read
\* last: every line before it has been processed completely
CurrentLineOnly ==
    IF scanner.pos = 0 THEN fields = <<>>
    ELSE fields = LastN(Fields(scanner.lines[scanner.pos]), Len(fields))

\* C23: in growing mode there is one write per valid sample processed, the
\* k-th being the single glyph of the k-th sample on the fixed scale, and no
\* sample is kept (no buffer, no slice); the samples not yet written are on
\* the line read last, so the glyph of every sample of a line is written
\* before the next line is read.
C23_GrowingStreams ==
    (pc # "idle" /\ GrowingMode) =>
        /\ Len(writer) = Len(Samples)
        /\ \A k \in 1..Len(writer) :
            Glyphs(writer[k]) = <<GlyphOn(Samples[k], FixedScale)>>
        /\ buffer.nil /\ numbers = <<>>
        /\ CurrentLineOnly

\* the two samples of the first line are written and the second line is
\* still unread
C23_Witness ==
    /\ pc = "generateSparklineStream"
    /\ GrowingMode
    /\ HasLine /\ scanner.pos = 1 /\ fields = <<>>
    /\ Len(writer) = 2
    /\ Gt(config.Max, config.Min)

----------------------------------------------------------------------------
\* Auto-scaled buffered mode

InputEnded == ~HasLine /\ fields = <<>>

\* what buffered mode has written: nothing before the input has ended,
\* nothing at all if the scanner failed or no sample was read, and otherwise
\* one string of one glyph per sample, in order, drawn on the given scale
BufferedOutput(scale) ==
    /\ writer # <<>> => pc = "returned" /\ InputEnded
    /\ pc = "returned" =>
        IF scanner.fails \/ Len(Samples) = 0
        THEN writer = <<>>
        ELSE /\ Len(writer) = 1
             /\ Glyphs(writer[1]) = [i \in 1..Len(Samples) |-> GlyphOn(Samples[i], scale)]
             /\ \A i \in 1..Len(writer[1]) : writer[1][i] # "\r"

\* C24 as stated: buffered mode draws every glyph on the scale from the
\* least to the greatest sample of the whole input.
C24_BufferedWholeInputScale ==
    (pc # "idle" /\ BufferedMode) =>
        BufferedOutput([min |-> LeastOf(Samples), max |-> GreatestOf(Samples)])

\* C24 amended: buffered mode draws every glyph on the scale from the least
\* sample of the whole input to its greatest sample or, when a fixed upper
\* bound is configured, to that bound.
C24_BufferedScale ==
    (pc # "idle" /\ BufferedMode) =>
        BufferedOutput([min |-> LeastOf(Samples),
                        max |-> IF config.HasMax THEN config.Max
                                ELSE GreatestOf(Samples)])

\* a buffered run with a fixed upper bound above all its samples has
\* written its line of two or more glyphs
C24_Witness ==
    /\ pc = "returned" /\ BufferedMode
    /\ Len(writer) = 1
    /\ Len(Samples) >= 2
    /\ config.HasMax /\ Gt(config.Max, GreatestOf(Samples))
    /\ Gt(GreatestOf(Samples), LeastOf(Samples))

----------------------------------------------------------------------------
\* processStream

\* the lines read so far
Scanned == SubSeq(scanner.lines, 1, scanner.pos)

Parses(line) == ParseFloat(line).err = "nil"
Succeeds(line) == Parses(line) /\ proc(call, ParseFloat(line).val).err = "nil"

\* the diagnostic a line that fails is skipped with
Diagnostic(line) ==
    IF Parses(line)
    THEN <<"could not process value", ParseFloat(line).val>>
    ELSE <<"could not parse input value", line>>

Warnings == SelectSeq(stderr, LAMBDA w : Len(w) = 2)

\* what processStream has done with the lines read so far, given the lines
\* that are skipped with a diagnostic: the results of the lines that
\* succeed are printed, one each, in order; the diagnostics of the skipped
\* lines are on stderr, in order; the run ends only at the end of the input
\* and exits with an error only if the scanner failed
StreamProcessed(diagnosed) ==
    /\ writer = [i \in 1..Len(SelectSeq(Scanned, Succeeds)) |->
                    Printf(call.format,
                           proc(call, ParseFloat(SelectSeq(Scanned, Succeeds)[i]).val).val)]
    /\ Warnings = [i \in 1..Len(diagnosed) |-> Diagnostic(diagnosed[i])]
    /\ pc \in {"returned", "exited"} => scanner.pos = Len(scanner.lines)
    /\ pc = "exited" <=> (scanner.pos = Len(scanner.lines) /\ scanner.fails /\ stderr # Warnings)

\* C25 as stated: every line that cannot be parsed or whose operation fails
\* is skipped with a diagnostic, and the results printed are those of the
\* other lines.
C25_EveryFailureDiagnosed ==
    pc # "idle" =>
        StreamProcessed(SelectSeq(Scanned, LAMBDA l : ~Succeeds(l)))

\* C25 amended: every non-empty line that cannot be parsed or whose
\* operation fails is skipped with a diagnostic, an empty line is skipped
\* without one, and the results printed are those of the other lines.
C25_StreamSkipsFailures ==
    pc # "idle" =>
        StreamProcessed(SelectSeq(Scanned, LAMBDA l : l # <<>> /\ ~Succeeds(l)))

\* a run has skipped a line its operation failed on, then printed the
\* result of the next line, and returned
C25_Witness ==
    /\ pc = "returned"
    /\ Len(scanner.lines) = 2
    /\ Parses(scanner.lines[1]) /\ ~Succeeds(scanner.lines[1])
    /\ Succeeds(scanner.lines[2])
    /\ Len(writer) = 1 /\ Len(Warnings) = 1

----------------------------------------------------------------------------
\* Circular buffer

BufferInUse == pc \in {"circularBuffer", "panic"}
SizeAskedFor == call.args[1]
Added == Tail(call.args)
Capacity == Len(buffer.data)

\* C26: after any calls of Add, GetAll returns the most recent min(n, c) of
\* the n values added, oldest first, and MinMax returns the least and the
\* greatest of those values.
C26_BufferContents ==
    BufferInUse =>
        /\ GetAll(buffer) = LastN(Added, Capacity)
        /\ Len(Added) > 0 =>
            MinMax(buffer) = [min |-> LeastOf(LastN(Added, Capacity)),
                              max |-> GreatestOf(LastN(Added, Capacity))]

\* C27: the capacity is the size asked for, or 1 if that is <= 0; head is
\* the number of calls of Add modulo the capacity, so within the backing
\* array; full is true exactly from the capacity-th Add on; no Add panics.
C27_BufferStructure ==
    BufferInUse =>
        /\ pc # "panic"
        /\ Capacity = (IF SizeAskedFor <= 0 THEN 1 ELSE SizeAskedFor)
        /\ Capacity >= 1
        /\ buffer.head \in 0..(Capacity - 1)
        /\ buffer.head = Len(Added) % Capacity
        /\ buffer.full <=> Len(Added) >= Capacity

\* a buffer asked for with size 0 has wrapped around its single slot twice
C27_Witness ==
    /\ BufferInUse
    /\ SizeAskedFor = 0
    /\ Len(Added) = 2
    /\ buffer.full /\ buffer.head = 0

----------------------------------------------------------------------------
\* Glyph index safety

\* C28: whatever the samples and the scale, a renderer never indexes
\* outside the ramp (it does not abort) and draws one glyph of the ramp for
\* each sample.
C28_GlyphIndexInRange ==
    /\ pc # "panic"
    /\ (pc = "returned" /\ call.op \in {"renderGrowingCharacter", "renderSlidingWindow",
                                        "generateSparklineFromSlice"}) =>
        Len(Glyphs(writer[1])) = Len(call.args)

----------------------------------------------------------------------------
\* Inverted fixed scale

InvertedFixedScale == config.HasMin /\ Gt(config.Min, config.Max)

\* C29: with a fixed scale whose Min is greater than its Max, the growing
\* and the sliding-window mode draw every sample with the lowest glyph of
\* the ramp, whatever its value.
C29_InvertedScaleLowest ==
    (pc # "idle" /\ InvertedFixedScale /\ ~BufferedMode) =>
        /\ Len(writer) = Len(Samples)
        /\ \A k \in 1..Len(writer) :
            /\ AllLowest(writer[k])
            /\ Len(Glyphs(writer[k])) = (IF GrowingMode THEN 1
                                         ELSE Len(LastN(SubSeq(Samples, 1, k), config.Width)))

\* a growing run on the scale from 2 down to 0 has drawn the samples 0 and 2
C29_Witness ==
    /\ pc = "returned"
    /\ GrowingMode /\ config.HasMax
    /\ config.Min = Rat(2, 1) /\ config.Max = Zero
    /\ Samples = <<Zero, Rat(2, 1)>>
    /\ Len(writer) = 2

----------------------------------------------------------------------------
\* Encompass

\* C30: whenever Encompass returns without error, the minimum returned is
\* not greater than the maximum and both are values parsed from the stream.
C30_EncompassOrdered ==
    (EncompassDone /\ encRet.err = "nil") =>
        /\ Le(encRet.min, encRet.max)
        /\ \E v \in ParsedValues : v = encRet.min
        /\ \E v \in ParsedValues : v = encRet.max

====
